---- MODULE Spec2Model ----
\* A model of source/utils/TE_data_preprocessing.py: the loader read_dat_files,
\* the previewer preview_data and the plotter plot_data, together with the parts
\* of pandas (read_csv, fillna, mean, std, clip) and of matplotlib.pyplot
\* (figure, plot, show, close) whose behaviour the three functions rely on.
\*
\* Text is modelled as sequences of one-character strings, so that endswith,
\* line splitting, field splitting and number parsing are computed, not assumed.
\* Real numbers are exact: a cell is an integer, a missing value, a text, or one
\* of the two clipping bounds mean -/+ 3*std kept in symbolic form.
EXTENDS Integers, Sequences, FiniteSets, TLC

\* fs         the directory the loader is pointed at: whether it can be listed,
\*            and its entries in listing order
\* data_dict  the caller's collection: file name -> entry
\* heap       the DataFrame objects the entries of data_dict refer to
\* figs       the numbers of pyplot's open figures, the current one last
\* last       the last call: its arguments and what it did
VARIABLES fs, data_dict, heap, figs, last

vars == <<fs, data_dict, heap, figs, last>>

----------------------------------------------------------------------------
\* Bounds of the model.

\* files in one directory listing
MaxFiles == 2
\* characters of a file whose text is enumerated exhaustively
MaxChars == 7
\* rows of a column whose cells are enumerated exhaustively
MaxRows == 11
\* rows of a column whose gaps are enumerated exhaustively
MaxGapRows == 4
\* figures pyplot holds open at once
MaxFigures == 2
\* names in a requested variables list
MaxVars == 2

----------------------------------------------------------------------------
\* Text.

Digits == {"0", "1", "2", "3", "4", "5", "6", "7", "8", "9"}

DigitValue(c) ==
    CASE c = "0" -> 0 [] c = "1" -> 1 [] c = "2" -> 2 [] c = "3" -> 3
      [] c = "4" -> 4 [] c = "5" -> 5 [] c = "6" -> 6 [] c = "7" -> 7
      [] c = "8" -> 8 [] c = "9" -> 9

\* The separator sep='\s+' of line 32.
Whitespace == {" ", "\t"}

\* The extension tested on line 24.
DatSuffix == <<".", "d", "a", "t">>

\* str.endswith
endswith(s, suffix) ==
    /\ Len(s) >= Len(suffix)
    /\ SubSeq(s, Len(s) - Len(suffix) + 1, Len(s)) = suffix

\* The lines of a text: every "\n" ends a line, and what follows the last "\n"
\* is a line when it is not empty.
RECURSIVE SplitLinesFrom(_, _, _, _)
SplitLinesFrom(s, i, cur, acc) ==
    IF i > Len(s)
    THEN IF cur = <<>> THEN acc ELSE Append(acc, cur)
    ELSE IF s[i] = "\n"
         THEN SplitLinesFrom(s, i + 1, <<>>, Append(acc, cur))
         ELSE SplitLinesFrom(s, i + 1, Append(cur, s[i]), acc)

SplitLines(s) == SplitLinesFrom(s, 1, <<>>, <<>>)

\* The fields of a line under a whitespace separator: maximal runs of
\* non-whitespace characters; leading and trailing whitespace makes no field.
RECURSIVE FieldsFrom(_, _, _, _)
FieldsFrom(l, i, cur, acc) ==
    IF i > Len(l)
    THEN IF cur = <<>> THEN acc ELSE Append(acc, cur)
    ELSE IF l[i] \in Whitespace
         THEN FieldsFrom(l, i + 1, <<>>, IF cur = <<>> THEN acc ELSE Append(acc, cur))
         ELSE FieldsFrom(l, i + 1, Append(cur, l[i]), acc)

Fields(l) == FieldsFrom(l, 1, <<>>, <<>>)

\* A field the parser converts to a number (the model's numbers are the
\* unsigned decimal integers).
IsNumeric(tok) == Len(tok) >= 1 /\ \A i \in 1..Len(tok) : tok[i] \in Digits

RECURSIVE to_numeric(_)
to_numeric(tok) ==
    IF Len(tok) = 0 THEN 0
    ELSE 10 * to_numeric(SubSeq(tok, 1, Len(tok) - 1)) + DigitValue(tok[Len(tok)])

----------------------------------------------------------------------------
\* Cells and tables (pandas.DataFrame).

NaN == [t |-> "nan"]
Num(v) == [t |-> "num", v |-> v]
Text(s) == [t |-> "str", v |-> s]

\* A DataFrame: its column labels, its number of rows, and its cells by column.
DataFrame(columns, nrows, data) ==
    [columns |-> columns, nrows |-> nrows, data |-> data]

\* DataFrame.empty: some axis has length 0.
empty(df) == Len(df.columns) = 0 \/ df.nrows = 0

\* pandas.read_csv(text, sep='\s+', header=None) with the C parser: blank lines
\* are skipped; the first record fixes the number of columns; a longer record
\* is an error and a shorter one is padded with missing values; a column whose
\* fields are all numeric holds numbers, any other column holds the texts.
read_csv(content) ==
    LET lines == SplitLines(content)
        all == [i \in 1..Len(lines) |-> Fields(lines[i])]
        records == SelectSeq(all, LAMBDA f : f # <<>>)
    IN  IF records = <<>>
        THEN [ok |-> FALSE, error |-> "EmptyDataError", df |-> DataFrame(<<>>, 0, <<>>)]
        ELSE LET W == Len(records[1])
                 numeric(c) == \A r \in 1..Len(records) :
                                   Len(records[r]) >= c => IsNumeric(records[r][c])
                 cell(r, c) == IF Len(records[r]) < c THEN NaN
                               ELSE IF numeric(c) THEN Num(to_numeric(records[r][c]))
                               ELSE Text(records[r][c])
             IN  IF \E r \in 1..Len(records) : Len(records[r]) > W
                 THEN [ok |-> FALSE, error |-> "ParserError",
                       df |-> DataFrame(<<>>, 0, <<>>)]
                 ELSE [ok |-> TRUE, error |-> "",
                       df |-> DataFrame([c \in 1..W |-> c - 1], Len(records),
                                        [c \in 1..W |->
                                            [r \in 1..Len(records) |-> cell(r, c)]])]

\* The labels numbered from 0, as range() counts.
var_columns_from_zero(df) == [i \in 1..Len(df.columns) |-> "var" \o ToString(i - 1)]

\* Line 33: the labels var1..varN, by position.
var_columns(df) == [i \in 1..Len(df.columns) |-> "var" \o ToString(i)]

----------------------------------------------------------------------------
\* The record of the last call: what its caller can observe (whether it raised,
\* what it printed, what it did to the figures) and the values plot_data's
\* locals went through: df_clean after line 89 (filled), the two clipping
\* thresholds of line 94 for each column (bounds), df_clean after line 94
\* (cleaned).

NoFrame == DataFrame(<<>>, 0, <<>>)

NoArg == [kind |-> "None", v |-> <<>>]

NoCall ==
    [op |-> "none", mapping |-> TRUE, filename |-> NoArg, variables |-> NoArg,
     raised |-> FALSE, out |-> <<>>, stage |-> "",
     created |-> 0, lines |-> <<>>, shown |-> FALSE,
     filled |-> NoFrame, bounds |-> <<>>, cleaned |-> NoFrame]

----------------------------------------------------------------------------
\* read_dat_files (lines 11-39).

\* An entry of the collection that is a DataFrame object of the heap.
Ref(r) == [kind |-> "DataFrame", ref |-> r]
\* An entry that is some other value.
Other == [kind |-> "other", ref |-> 0]

EmptyMap == [k \in {} |-> Other]

Put(map, k, v) == [x \in (DOMAIN map) \cup {k} |-> IF x = k THEN v ELSE map[x]]

\* The loop body with an except clause that ends the loading: after a report,
\* no further file is read.
load_file_stops(acc, f) ==
    IF acc.out # <<>> \/ ~endswith(f.name, DatSuffix) THEN acc
    ELSE IF ~f.readable \/ ~read_csv(f.content).ok
    THEN [acc EXCEPT !.out = Append(@, [msg |-> "cannot_read", file |-> f.name,
                                        error |-> "Exception"])]
    ELSE [acc EXCEPT !.dict = Put(@, f.name, Ref(Len(acc.heap) + 1)),
                     !.heap = Append(@, [read_csv(f.content).df EXCEPT
                                  !.columns = var_columns(read_csv(f.content).df)])]

\* The body of the loop of lines 23-37 for one directory entry.
load_file(acc, f) ==
    IF ~endswith(f.name, DatSuffix) THEN acc
    ELSE IF ~f.readable
    THEN [acc EXCEPT !.out = Append(@, [msg |-> "cannot_read", file |-> f.name,
                                        error |-> "OSError"])]
    ELSE LET parsed == read_csv(f.content)
             df == [parsed.df EXCEPT !.columns = var_columns(parsed.df)]
             r == IF f.name \in DOMAIN acc.dict
                  THEN acc.dict[f.name].ref ELSE Len(acc.heap) + 1
         IN  IF ~parsed.ok
             THEN [acc EXCEPT !.out = Append(@, [msg |-> "cannot_read", file |-> f.name,
                                                 error |-> parsed.error])]
             ELSE [acc EXCEPT !.dict = Put(@, f.name, Ref(r)),
                              !.heap = IF r > Len(@) THEN Append(@, df)
                                       ELSE [@ EXCEPT ![r] = df]]

RECURSIVE load_files(_, _, _)
load_files(files, i, acc) ==
    IF i > Len(files) THEN acc
    ELSE load_files(files, i + 1, load_file(acc, files[i]))

\* The call data = read_dat_files(directory). os.listdir (line 23) is outside
\* the try block: when it raises, the call raises and the caller's collection
\* stays what it was.
read_dat_files ==
    IF ~fs.listable
    THEN /\ last' = [NoCall EXCEPT !.op = "read_dat_files", !.raised = TRUE]
         /\ UNCHANGED <<fs, data_dict, heap, figs>>
    ELSE LET res == load_files(fs.files, 1,
                               [dict |-> EmptyMap, heap |-> <<>>, out |-> <<>>])
         IN  /\ data_dict' = res.dict
             /\ heap' = res.heap
             /\ last' = [NoCall EXCEPT !.op = "read_dat_files", !.out = res.out]
             /\ UNCHANGED <<fs, figs>>

----------------------------------------------------------------------------
\* pandas: fillna, mean, std, clip.

\* fillna(method='ffill') on one column: a pass from the top that carries the
\* last valid cell into the gaps after it.
RECURSIVE ffill_from(_, _, _)
ffill_from(col, i, carried) ==
    IF i > Len(col) THEN <<>>
    ELSE LET v == IF col[i] = NaN THEN carried ELSE col[i]
         IN  <<v>> \o ffill_from(col, i + 1, v)

ffill(col) == ffill_from(col, 1, NaN)

\* fillna(method='bfill') on one column: the same pass from the bottom.
RECURSIVE bfill_from(_, _, _)
bfill_from(col, i, carried) ==
    IF i < 1 THEN <<>>
    ELSE LET v == IF col[i] = NaN THEN carried ELSE col[i]
         IN  bfill_from(col, i - 1, v) \o <<v>>

bfill(col) == bfill_from(col, Len(col), NaN)

\* The two fills in the other order.
fillna_bfill_ffill(df) ==
    [df EXCEPT !.data = [c \in 1..Len(df.columns) |-> ffill(bfill(df.data[c]))]]

\* Line 89 on a whole table.
fillna_ffill_bfill(df) ==
    [df EXCEPT !.data = [c \in 1..Len(df.columns) |-> bfill(ffill(df.data[c]))]]

\* The real number (a + k * sqrt(q / m)) / n, with m, n >= 1 and q >= 0: the
\* form of a mean (k = 0), of a sample standard deviation (a = 0, k = 1) and of
\* mean -/+ 3 * std (k = -3, 3).
Real(a, k, q, m, n) == [t |-> "real", a |-> a, k |-> k, q |-> q, m |-> m, n |-> n]

RECURSIVE SumFrom(_, _)
SumFrom(xs, i) == IF i > Len(xs) THEN 0 ELSE xs[i] + SumFrom(xs, i + 1)

\* The values of the cells that are not missing.
valid_values(col) ==
    LET present == SelectSeq(col, LAMBDA x : x # NaN)
    IN  [i \in 1..Len(present) |-> present[i].v]

\* A column of dtype object: mean and std raise TypeError on it.
is_object(col) == \E i \in 1..Len(col) : col[i].t = "str"

\* Series.mean(), skipping missing cells; NaN when none is left.
mean(col) ==
    LET xs == valid_values(col)
    IN  IF Len(xs) = 0 THEN NaN ELSE Real(SumFrom(xs, 1), 0, 0, 1, Len(xs))

\* The population standard deviation (ddof = 0).
std_population(col) ==
    LET xs == valid_values(col)
        n == Len(xs)
        S == SumFrom(xs, 1)
        sq == [i \in 1..n |-> (n * xs[i] - S) * (n * xs[i] - S)]
    IN  IF n < 1 THEN NaN ELSE Real(0, 1, SumFrom(sq, 1), n, n)

\* Series.std(), the sample standard deviation (ddof = 1), skipping missing
\* cells; NaN with fewer than 2 values. With S the sum and n the count,
\* std = sqrt(Q / (n - 1)) / n for Q = sum of (n * x - S)^2.
std(col) ==
    LET xs == valid_values(col)
        n == Len(xs)
        S == SumFrom(xs, 1)
        sq == [i \in 1..n |-> (n * xs[i] - S) * (n * xs[i] - S)]
    IN  IF n < 2 THEN NaN ELSE Real(0, 1, SumFrom(sq, 1), n - 1, n)

\* c * std, and mean - x, mean + x for a mean and an x over the same count;
\* NaN when an operand is NaN.
times(c, x) == IF x = NaN THEN NaN ELSE [x EXCEPT !.a = c * @, !.k = c * @]

minus(mu, x) ==
    IF mu = NaN \/ x = NaN THEN NaN
    ELSE Real(mu.a - x.a, -x.k, x.q, x.m, x.n)

plus(mu, x) ==
    IF mu = NaN \/ x = NaN THEN NaN
    ELSE Real(mu.a + x.a, x.k, x.q, x.m, x.n)

\* The sign of the irrational part k * sqrt(q / m).
root_sign(b) == IF b.q = 0 \/ b.k = 0 THEN 0 ELSE IF b.k > 0 THEN 1 ELSE -1

\* x < b and x > b for an integer x and a real b, decided exactly: with
\* d = n * x - a, compare d with k * sqrt(q / m) by signs and squares.
less_than(x, b) ==
    LET d == b.n * x - b.a
        d2m == d * d * b.m
        k2q == b.k * b.k * b.q
    IN  CASE root_sign(b) = 0 -> d < 0
          [] root_sign(b) = 1 -> d < 0 \/ d2m < k2q
          [] root_sign(b) = -1 -> d < 0 /\ d2m > k2q

greater_than(x, b) ==
    LET d == b.n * x - b.a
        d2m == d * d * b.m
        k2q == b.k * b.k * b.q
    IN  CASE root_sign(b) = 0 -> d > 0
          [] root_sign(b) = 1 -> d > 0 /\ d2m > k2q
          [] root_sign(b) = -1 -> d > 0 \/ d2m < k2q

\* A real as a cell: an integer when it is one.
as_cell(b) ==
    IF root_sign(b) = 0
    THEN IF b.a % b.n = 0 THEN Num(b.a \div b.n) ELSE Real(b.a, 0, 0, 1, b.n)
    ELSE b

\* A clip in which a threshold that is NaN makes every cell NaN, as a
\* comparison-by-arithmetic clamp does.
clip_nan_threshold(col, lower, upper) ==
    [i \in 1..Len(col) |->
        IF col[i] = NaN \/ lower = NaN \/ upper = NaN THEN NaN
        ELSE IF less_than(col[i].v, lower) THEN as_cell(lower)
        ELSE IF greater_than(col[i].v, upper) THEN as_cell(upper)
        ELSE col[i]]

\* Series.clip(lower, upper): a cell below lower becomes lower, a cell above
\* upper becomes upper; a threshold that is NaN clips nothing, and a missing
\* cell stays missing.
clip(col, lower, upper) ==
    [i \in 1..Len(col) |->
        IF col[i] = NaN THEN NaN
        ELSE IF lower # NaN /\ less_than(col[i].v, lower) THEN as_cell(lower)
        ELSE IF upper # NaN /\ greater_than(col[i].v, upper) THEN as_cell(upper)
        ELSE col[i]]

\* The factor of lines 90-94.
SigmaFactor == 3

----------------------------------------------------------------------------
\* plot_data (lines 61-130).

\* DataFrame.copy(): a new object with the same content.
copy(h, r) == [heap |-> Append(h, h[r]), ref |-> Len(h) + 1]

\* Lines 91-94: each column of the object df_clean, in order, is replaced by
\* its clipped values; a column of dtype object raises at line 92.
RECURSIVE clip_columns(_, _, _, _)
clip_columns(h, r, c, bounds) ==
    IF c > Len(h[r].columns) THEN [heap |-> h, bounds |-> bounds, error |-> FALSE]
    ELSE IF is_object(h[r].data[c]) THEN [heap |-> h, bounds |-> bounds, error |-> TRUE]
    ELSE LET col == h[r].data[c]
             \* mean and std are computed once (lines 92-93), then used
             b == CHOOSE x \in
                 {<<minus(s[1], times(SigmaFactor, s[2])),
                    plus(s[1], times(SigmaFactor, s[2]))>> :
                      s \in {<<mean(col), std(col)>>}} : TRUE
             clipped == clip(col, b[1], b[2])
         IN  clip_columns([h EXCEPT ![r].data[c] = clipped], r, c + 1,
                          Append(bounds, b))

\* The same steps on the stored object itself: no copy, fillna in place.
preprocess_in_place(h, df) ==
    LET h2 == [h EXCEPT ![df] = fillna_ffill_bfill(@)]
        done == clip_columns(h2, df, 1, <<>>)
    IN  [heap |-> done.heap, df_clean |-> df, filled |-> h2[df],
         bounds |-> done.bounds, error |-> done.error]

\* Lines 87-94: df_clean is a copy of df, then the new object fillna returns,
\* and the clipping assigns into that object.
preprocess(h, df) ==
    LET copied == copy(h, df)
        h2 == Append(copied.heap, fillna_ffill_bfill(copied.heap[copied.ref]))
        df_clean == Len(h2)
        done == clip_columns(h2, df_clean, 1, <<>>)
    IN  [heap |-> done.heap, df_clean |-> df_clean, filled |-> h2[df_clean],
         bounds |-> done.bounds, error |-> done.error]

\* The checks with the key looked up before its type is tested.
validate_key_first(mapping, filename) ==
    IF ~mapping THEN "data_dict_not_dict"
    ELSE IF filename.v \notin DOMAIN data_dict THEN "file_not_found"
    ELSE IF filename.kind # "str" THEN "filename_not_str"
    ELSE IF data_dict[filename.v].kind # "DataFrame" THEN "not_dataframe"
    ELSE IF empty(heap[data_dict[filename.v].ref]) THEN "data_empty"
    ELSE "ok"

\* Lines 73-84: the first check that fails, or "ok".
validate(mapping, filename) ==
    IF ~mapping THEN "data_dict_not_dict"
    ELSE IF filename.kind # "str" THEN "filename_not_str"
    ELSE IF filename.v \notin DOMAIN data_dict THEN "file_not_found"
    ELSE IF data_dict[filename.v].kind # "DataFrame" THEN "not_dataframe"
    ELSE IF empty(heap[data_dict[filename.v].ref]) THEN "data_empty"
    ELSE "ok"

\* Lines 97-100: the names to plot.
requested(variables, df) ==
    CASE variables.kind = "None" -> df.columns
      [] variables.kind = "list" -> variables.v
      [] OTHER -> <<variables.v[1]>>

InSeq(x, s) == \E i \in 1..Len(s) : s[i] = x

\* Every requested name plotted, without the test of line 106.
valid_vars_unfiltered(names, df) == names

\* Lines 104-110: the names plotted, in order, and the warnings printed.
valid_vars(names, df) == SelectSeq(names, LAMBDA v : InSeq(v, df.columns))

warnings(names, df) ==
    LET absent == SelectSeq(names, LAMBDA v : ~InSeq(v, df.columns))
    IN  [i \in 1..Len(absent) |-> [msg |-> "warning_absent", what |-> absent[i]]]

MaxOf(s) == IF s = <<>> THEN 0 ELSE CHOOSE x \in {s[i] : i \in 1..Len(s)} :
                                        \A j \in 1..Len(s) : s[j] <= x

\* plt.figure(): a new figure, which becomes the current one.
figure(fs_) == Append(fs_, MaxOf(fs_) + 1)

\* No figure is closed.
close_nothing(fs_) == fs_

\* plt.close(): the current figure, if there is one, is closed.
close(fs_) == IF fs_ = <<>> THEN fs_ ELSE SubSeq(fs_, 1, Len(fs_) - 1)

\* Lines 128-130.
failed(call, stage, error, warned, open) ==
    /\ last' = [call EXCEPT !.stage = stage,
                            !.out = warned \o <<[msg |-> "plot_error", what |-> error]>>]
    /\ figs' = close(open)

\* The call plot_data(data_dict, filename, variables).
\*   mapping   whether the first argument is the caller's collection (a dict)
\*             or None
\*   fault     where matplotlib raises: "none", "figure" (line 103) or "render"
\*             (lines 116-126)
\*   kept      whether the figure is still open when plt.show() returns
plot_data(mapping, filename, variables, fault, kept) ==
    LET call == [NoCall EXCEPT !.op = "plot_data", !.mapping = mapping,
                               !.filename = filename, !.variables = variables]
        checked == validate(mapping, filename)
    IN  IF checked # "ok"
        THEN /\ failed(call, "validation", checked, <<>>, figs)
             /\ UNCHANGED <<fs, data_dict, heap>>
        ELSE
        \E pre \in {preprocess(heap, data_dict[filename.v].ref)} :
        LET kept_call == [call EXCEPT !.filled = pre.filled,
                                      !.bounds = pre.bounds,
                                      !.cleaned = pre.heap[pre.df_clean]]
            df_clean == pre.heap[pre.df_clean]
            names == requested(variables, df_clean)
            drawn == valid_vars(names, df_clean)
            warned == warnings(names, df_clean)
            opened == figure(figs)
            plotted == [kept_call EXCEPT !.created = opened[Len(opened)],
                                         !.lines = drawn]
        IN  \* the locals die with the call: only the caller's objects remain
            /\ heap' = SubSeq(pre.heap, 1, Len(heap))
            /\ UNCHANGED <<fs, data_dict>>
            /\ IF pre.error
               THEN failed(kept_call, "cleaning", "TypeError", <<>>, figs)
               ELSE IF fault = "figure"
               THEN failed(kept_call, "figure", "figure_failed", <<>>, figs)
               ELSE IF drawn = <<>>
               THEN failed(plotted, "filter", "no_valid_variable", warned, opened)
               ELSE IF fault = "render"
               THEN failed(plotted, "render", "render_failed", warned, opened)
               ELSE /\ last' = [plotted EXCEPT !.stage = "done", !.out = warned,
                                               !.shown = TRUE]
                    /\ figs' = IF kept THEN opened ELSE close(opened)

----------------------------------------------------------------------------
\* preview_data (lines 41-59).

\* DataFrame.head(rows), for rows >= 0.
head(df, rows) ==
    LET k == IF rows < df.nrows THEN rows ELSE df.nrows
    IN  [df EXCEPT !.nrows = k,
                   !.data = [c \in 1..Len(df.columns) |-> SubSeq(df.data[c], 1, k)]]

\* The call preview_data(data_dict, filename, rows). There is no try block:
\* the membership test on None (line 50) and the attribute df.shape of an entry
\* that is no DataFrame (line 56) raise to the caller.
preview_data(mapping, filename, rows) ==
    LET call == [NoCall EXCEPT !.op = "preview_data", !.mapping = mapping,
                               !.filename = filename]
    IN  /\ UNCHANGED <<fs, data_dict, heap, figs>>
        /\ IF ~mapping
           THEN last' = [call EXCEPT !.raised = TRUE]
           ELSE IF filename.kind # "str" \/ filename.v \notin DOMAIN data_dict
           THEN last' = [call EXCEPT !.out = <<[msg |-> "file_not_found",
                                               what |-> filename]>>]
           ELSE IF data_dict[filename.v].kind # "DataFrame"
           THEN last' = [call EXCEPT !.raised = TRUE,
                                     !.out = <<[msg |-> "filename", what |-> filename]>>]
           ELSE LET df == heap[data_dict[filename.v].ref]
                IN  last' = [call EXCEPT !.out =
                        <<[msg |-> "filename", what |-> filename],
                          [msg |-> "shape", what |-> <<df.nrows, Len(df.columns)>>],
                          [msg |-> "columns", what |-> df.columns],
                          [msg |-> "preview", what |-> head(df, rows)]>>]

----------------------------------------------------------------------------
\* Inputs: file names, file texts, directories, collections, arguments.

RECURSIVE SeqsUpTo(_, _)
SeqsUpTo(S, n) ==
    IF n = 0 THEN {<<>>}
    ELSE LET shorter == SeqsUpTo(S, n - 1)
         IN  shorter \cup {Append(s, x) : s \in {t \in shorter : Len(t) = n - 1}, x \in S}

Distinct(s) == \A i, j \in 1..Len(s) : i # j => s[i] # s[j]

NameO == <<"o", ".", "d", "a", "t">>
NameT == <<"t", ".", "d", "a", "t">>
NameE == <<"e", ".", "d", "a", "t">>
NameB == <<"b", ".", "d", "a", "t">>
NameZ == <<"z", ".", "d", "a", "t">>
NameTxt == <<"c", ".", "t", "x", "t">>
NameShort == <<"d", "a", "t">>

File(name, readable, content) ==
    [name |-> name, readable |-> readable, content |-> content]

\* "1 2\n3\n": two records, the second one field short
TextShortRow == <<"1", " ", "2", "\n", "3", "\n">>
\* "1\n2 3\n": two records, the second one field long
TextLongRow == <<"1", "\n", "2", " ", "3", "\n">>
\* "x 7\n"
TextWord == <<"x", " ", "7", "\n">>
\* " 10 2\n\n3 4", with a leading blank, a blank line and no final newline
TextBlank == <<" ", "1", "0", " ", "2", "\n", "\n", "3", " ", "4">>

Directory(listable, files) == [listable |-> listable, files |-> files]

NoDirectory == Directory(FALSE, <<>>)

\* A directory with a file of each kind.
SampleDirectory ==
    Directory(TRUE, <<File(NameTxt, TRUE, TextBlank), File(NameO, TRUE, TextShortRow),
                      File(NameE, TRUE, <<>>), File(NameT, TRUE, TextWord),
                      File(NameB, FALSE, <<>>)>>)

\* The files a listing is drawn from: each matching name with each kind of
\* content, and two names without the extension.
ListedFiles ==
    {File(n, TRUE, c) : n \in {NameO, NameT},
                        c \in {TextShortRow, TextLongRow, TextWord, <<>>}}
    \cup {File(n, FALSE, <<>>) : n \in {NameO, NameT}}
    \cup {File(NameTxt, TRUE, TextBlank), File(NameShort, TRUE, TextBlank)}

Listings ==
    {l \in SeqsUpTo(ListedFiles, MaxFiles) :
        Distinct([i \in 1..Len(l) |-> l[i].name])}

ParseAlphabet == {"1", "2", " ", "\n"}

Nums(xs) == [i \in 1..Len(xs) |-> IF xs[i] < 0 THEN NaN ELSE Num(xs[i])]

\* Ten zeros and a one: the one lies more than 3 sample standard deviations
\* above the mean (no column of fewer than 11 rows has such a value).
OutlierColumn == Nums(<<0, 0, 0, 0, 0, 1, 0, 0, 0, 0, 0>>)
GappedColumn == Nums(<<-1, 4, -1, -1, 6, 5, 5, 4, 6, 5, -1>>)

\* A collection built by hand: a table with an outlier and with gaps, a table
\* with a text column, a table without rows, and an entry that is no table.
HandMadeHeap ==
    <<DataFrame(<<"var1", "var2">>, 11, <<OutlierColumn, GappedColumn>>),
      DataFrame(<<"var1", "var2">>, 1, <<Nums(<<3>>), <<Text(<<"x">>)>>>>),
      DataFrame(<<"var1">>, 0, <<<<>>>>)>>

HandMadeDict ==
    [k \in {NameO, NameT, NameE, NameB} |->
        CASE k = NameO -> Ref(1) [] k = NameT -> Ref(2) [] k = NameE -> Ref(3)
          [] k = NameB -> Other]

\* Columns of up to n rows over {1, 2} and the missing value.
GapColumns(n) == SeqsUpTo({NaN, Num(1), Num(2)}, n) \ {<<>>}

\* Columns of n rows over {0, 1}.
RECURSIVE BinaryColumns(_)
BinaryColumns(n) ==
    IF n = 0 THEN {<<>>}
    ELSE {Append(s, x) : s \in BinaryColumns(n - 1), x \in {Num(0), Num(1)}}

\* The same columns, and each of them with one cell missing.
Columns(n) ==
    BinaryColumns(n)
    \cup {[col EXCEPT ![i] = NaN] : col \in BinaryColumns(n), i \in 1..n}

\* A str argument: a file name (its characters) or a variable name (in a
\* 1-tuple).
Str(s) == [kind |-> "str", v |-> s]
NotStr == [kind |-> "int", v |-> <<>>]
List(s) == [kind |-> "list", v |-> s]

FilenameArgs == {Str(n) : n \in {NameO, NameT, NameE, NameB, NameZ}} \cup {NotStr}

VariableNames == {"var1", "var9"}

VariablesArgs ==
    {NoArg, Str(<<"var1">>)} \cup {List(l) : l \in SeqsUpTo(VariableNames, MaxVars)}

\* Where matplotlib raises, and whether the shown figure stays open.
Renderings == {<<"none", TRUE>>, <<"none", FALSE>>, <<"figure", FALSE>>,
               <<"render", FALSE>>}

----------------------------------------------------------------------------
\* The calls.

ReadCall == read_dat_files

PreviewCall ==
    \E filename \in FilenameArgs, rows \in {1, 5} :
        preview_data(TRUE, filename, rows)

PreviewNoMapping == preview_data(FALSE, Str(NameO), 5)

PlotCall ==
    \E filename \in FilenameArgs, variables \in VariablesArgs, r \in Renderings :
        /\ r[2] => Len(figs) < MaxFigures
        /\ plot_data(TRUE, filename, variables, r[1], r[2])

PlotNoMapping ==
    \E filename \in {Str(NameO), NotStr} :
        plot_data(FALSE, filename, NoArg, "none", FALSE)

PlotAll == plot_data(TRUE, Str(NameO), NoArg, "none", FALSE)

----------------------------------------------------------------------------
\* Specifications.

\* The three operations on a hand-made or loaded collection.
Init ==
    /\ fs \in {NoDirectory, SampleDirectory}
    /\ data_dict = HandMadeDict
    /\ heap = HandMadeHeap
    /\ figs = <<>>
    /\ last = NoCall

Next == ReadCall \/ PreviewCall \/ PreviewNoMapping \/ PlotCall \/ PlotNoMapping

Spec == Init /\ [][Next]_vars

\* The loader on every listing of up to MaxFiles files.
InitLoad ==
    /\ fs \in {NoDirectory} \cup {Directory(TRUE, l) : l \in Listings}
    /\ data_dict = EmptyMap
    /\ heap = <<>>
    /\ figs = <<>>
    /\ last = NoCall

NextLoad == ReadCall

SpecLoad == InitLoad /\ [][NextLoad]_vars

\* The loader on every text of up to MaxChars characters.
InitParse ==
    /\ fs \in {Directory(TRUE, <<File(NameO, TRUE, content)>>) :
                  content \in SeqsUpTo(ParseAlphabet, MaxChars)}
    /\ data_dict = EmptyMap
    /\ heap = <<>>
    /\ figs = <<>>
    /\ last = NoCall

NextParse == ReadCall

SpecParse == InitParse /\ [][NextParse]_vars

\* The plotter on every one-column table of up to MaxRows rows over {0, 1}
\* with at most one missing cell.
InitClean ==
    /\ fs = NoDirectory
    /\ data_dict = [k \in {NameO} |-> Ref(1)]
    /\ \E n \in 1..MaxRows :
           heap \in {<<DataFrame(<<"var1">>, n, <<col>>)>> : col \in Columns(n)}
    /\ figs = <<>>
    /\ last = NoCall

NextClean == PlotAll

SpecClean == InitClean /\ [][NextClean]_vars

\* The plotter on every one-column table of up to MaxGapRows rows, each cell a
\* value or missing.
InitFill ==
    /\ fs = NoDirectory
    /\ data_dict = [k \in {NameO} |-> Ref(1)]
    /\ heap \in {<<DataFrame(<<"var1">>, Len(col), <<col>>)>> : col \in GapColumns(MaxGapRows)}
    /\ figs = <<>>
    /\ last = NoCall

NextFill == PlotAll

SpecFill == InitFill /\ [][NextFill]_vars

----------------------------------------------------------------------------
\* Properties.

Set(s) == {s[i] : i \in 1..Len(s)}

IsPlot == last.op = "plot_data"

\* The only table of SpecClean and SpecFill, and its only column.
Stored == heap[data_dict[NameO].ref]
StoredColumn == Stored.data[1]

\* C1: no exception propagates past read_dat_files, preview_data or plot_data:
\* whatever the input, the last call did not raise.
C1_NoExceptionPropagates == ~last.raised

\* A name that ends in ".dat", character by character.
HasDatExtension(name) ==
    /\ Len(name) >= 4
    /\ name[Len(name) - 3] = "."
    /\ name[Len(name) - 2] = "d"
    /\ name[Len(name) - 1] = "a"
    /\ name[Len(name)] = "t"

Loadable(f) == f.readable /\ read_csv(f.content).ok

\* The positions of the listing whose file has the extension and fails to load.
RECURSIVE FailingFrom(_, _)
FailingFrom(files, i) ==
    IF i > Len(files) THEN <<>>
    ELSE (IF HasDatExtension(files[i].name) /\ ~Loadable(files[i])
          THEN <<files[i].name>> ELSE <<>>) \o FailingFrom(files, i + 1)

\* C2: after read_dat_files on a directory that can be listed, the keys of the
\* returned mapping are exactly the names of the files with the extension that
\* opened and parsed, the reports are exactly one per file with the extension
\* that failed, in listing order, and a file without the extension has neither
\* an entry nor a report.
C2_SkipAndContinue ==
    (last.op = "read_dat_files" /\ ~last.raised) =>
        /\ DOMAIN data_dict =
               {fs.files[i].name : i \in {j \in 1..Len(fs.files) :
                    HasDatExtension(fs.files[j].name) /\ Loadable(fs.files[j])}}
        /\ [i \in 1..Len(last.out) |-> last.out[i].file] = FailingFrom(fs.files, 1)
        /\ \A i \in 1..Len(last.out) : last.out[i].msg = "cannot_read"
        /\ \A i \in 1..Len(fs.files) :
               ~HasDatExtension(fs.files[i].name) =>
                   /\ fs.files[i].name \notin DOMAIN data_dict
                   /\ \A j \in 1..Len(last.out) : last.out[j].file # fs.files[i].name

\* A file that failed was reported, and a file listed after it was loaded.
C2_Witness ==
    /\ last.op = "read_dat_files"
    /\ Len(fs.files) = 2
    /\ Len(last.out) = 1
    /\ last.out[1].file = fs.files[1].name
    /\ DOMAIN data_dict = {fs.files[2].name}

\* The number of lines of a text, counted on its characters.
LineCount(s) ==
    Cardinality({i \in 1..Len(s) : s[i] = "\n"})
    + (IF s # <<>> /\ s[Len(s)] # "\n" THEN 1 ELSE 0)

\* The value of a decimal numeral, read from the left.
RECURSIVE Decimal(_, _, _)
Decimal(tok, i, acc) ==
    IF i > Len(tok) THEN acc ELSE Decimal(tok, i + 1, 10 * acc + DigitValue(tok[i]))

\* Every line of the text is a row of exactly W numerals, and there is a line.
WellFormedRows(s, W) ==
    /\ W >= 1
    /\ SplitLines(s) # <<>>
    /\ \A i \in 1..Len(SplitLines(s)) :
           LET f == Fields(SplitLines(s)[i])
           IN  Len(f) = W /\ \A c \in 1..W : IsNumeric(f[c])

ParsedText == fs.files[1].content

\* C3: a file whose lines are all rows of W numbers is stored as a table with
\* the W columns var1..varW in this order and one row per line, the cell at row
\* r, column c being the value of the c-th field of line r.
C3_WellFormedShape ==
    \A W \in 1..MaxChars :
        (last.op = "read_dat_files" /\ WellFormedRows(ParsedText, W)) =>
            /\ NameO \in DOMAIN data_dict
            /\ data_dict[NameO].kind = "DataFrame"
            /\ LET df == heap[data_dict[NameO].ref]
                   lines == SplitLines(ParsedText)
               IN  /\ Len(df.columns) = W
                   /\ \A c \in 1..W : df.columns[c] = "var" \o ToString(c)
                   /\ df.nrows = LineCount(ParsedText)
                   /\ Len(df.data) = W
                   /\ \A c \in 1..W :
                          /\ Len(df.data[c]) = LineCount(ParsedText)
                          /\ \A r \in 1..df.nrows :
                                 df.data[c][r] = Num(Decimal(Fields(lines[r])[c], 1, 0))

\* A text of two rows of two numbers has been loaded.
C3_Witness ==
    /\ last.op = "read_dat_files"
    /\ WellFormedRows(ParsedText, 2)
    /\ LineCount(ParsedText) = 2
    /\ NameO \in DOMAIN data_dict
    /\ heap[data_dict[NameO].ref].data[1] # heap[data_dict[NameO].ref].data[2]

\* The condition plot_data has to report for its arguments: the first of the
\* five checks that fails.
ExpectedCondition ==
    CASE ~last.mapping -> "data_dict_not_dict"
      [] last.mapping /\ last.filename.kind # "str" -> "filename_not_str"
      [] last.mapping /\ last.filename.kind = "str"
         /\ last.filename.v \notin DOMAIN data_dict -> "file_not_found"
      [] OTHER ->
           IF data_dict[last.filename.v].kind # "DataFrame" THEN "not_dataframe"
           ELSE IF heap[data_dict[last.filename.v].ref].nrows = 0
                   \/ heap[data_dict[last.filename.v].ref].columns = <<>>
           THEN "data_empty"
           ELSE "ok"

\* C4: plot_data checks, in this order, that the collection is a mapping, the
\* key a string, the key present, the entry a table and the table not empty;
\* the first check that fails is the one condition reported, and then no
\* figure is created, no line is drawn and nothing is shown. The conditions
\* are different from one another.
C4_ValidationOrder ==
    IsPlot =>
        /\ (ExpectedCondition = "ok") = (last.stage # "validation")
        /\ ExpectedCondition # "ok" =>
               /\ last.out = <<[msg |-> "plot_error", what |-> ExpectedCondition]>>
               /\ last.created = 0
               /\ last.lines = <<>>
               /\ ~last.shown

\* An empty table was refused while a figure of an earlier call was open.
C4_Witness ==
    /\ IsPlot
    /\ last.stage = "validation"
    /\ last.out[1].what = "data_empty"
    /\ last.filename = Str(NameE)
    /\ figs # <<>>

\* The names a call asked for: the list given, the one name given, or every
\* column.
Requested ==
    IF last.variables.kind = "None" THEN last.cleaned.columns
    ELSE last.variables.v

\* The members of names that are (keep) or are not (~keep) columns, in order.
RECURSIVE Pick(_, _, _)
Pick(names, columns, keep) ==
    IF names = <<>> THEN <<>>
    ELSE (IF (Head(names) \in Set(columns)) = keep THEN <<Head(names)>> ELSE <<>>)
         \o Pick(Tail(names), columns, keep)

ReachedFilter == IsPlot /\ last.stage \in {"filter", "render", "done"}

\* C5: in a call of plot_data that reaches the column filter, each requested
\* name that is no column is reported by one warning and left out, one line is
\* drawn for each requested name that is a column, in request order, and when
\* no requested name is a column the call reports a condition right after the
\* warnings, draws no line and shows nothing.
C5_ColumnFilter ==
    ReachedFilter =>
        LET absent == Pick(Requested, last.cleaned.columns, FALSE)
            present == Pick(Requested, last.cleaned.columns, TRUE)
        IN  /\ last.lines = present
            /\ Len(last.out) >= Len(absent)
            /\ \A i \in 1..Len(absent) :
                   last.out[i] = [msg |-> "warning_absent", what |-> absent[i]]
            /\ \A i \in 1..Len(last.out) :
                   last.out[i].msg = "warning_absent" => i <= Len(absent)
            /\ present = <<>> =>
                   /\ last.stage = "filter"
                   /\ last.lines = <<>>
                   /\ ~last.shown
                   /\ last.out[Len(last.out)] =
                          [msg |-> "plot_error", what |-> "no_valid_variable"]
            /\ (present # <<>> /\ last.stage = "done") =>
                   last.shown /\ Len(last.out) = Len(absent)

\* 'var9' alone was requested on a table that has no such column.
C5_Witness ==
    /\ IsPlot
    /\ last.variables = List(<<"var9">>)
    /\ last.stage = "filter"
    /\ Len(last.out) = 2

\* C6: a call of preview_data or plot_data, whether it succeeds or fails,
\* leaves the collection as it was: the same keys, and every stored table with
\* the same columns and the same cells.
C6_ReadOnlyAfterLoad ==
    [][last'.op \in {"preview_data", "plot_data"} =>
           (data_dict' = data_dict /\ heap' = heap)]_vars

\* A plot went through whose cleaned copy differs from the stored table, on a
\* collection that read_dat_files returned.
C6_Witness ==
    /\ IsPlot
    /\ last.stage = "done"
    /\ fs.listable
    /\ DOMAIN data_dict = {NameO, NameT}
    /\ last.cleaned # heap[data_dict[last.filename.v].ref]
    /\ \E r \in 1..heap[data_dict[last.filename.v].ref].nrows :
           heap[data_dict[last.filename.v].ref].data[2][r] = NaN

\* The values of a column without missing cells.
Values(col) == [i \in 1..Len(col) |-> col[i].v]

RECURSIVE Sum(_)
Sum(xs) == IF xs = <<>> THEN 0 ELSE Head(xs) + Sum(Tail(xs))

\* n^2 times the sum of the squared deviations of xs from its mean S / n.
Deviation(xs, S) ==
    Sum([i \in 1..Len(xs) |-> (Len(xs) * xs[i] - S) * (Len(xs) * xs[i] - S)])

\* x lies within 3 sample standard deviations of the mean of n >= 2 values of
\* sum S and deviation Q: (x - mean)^2 <= 9 * variance, cleared of its
\* denominators.
WithinThreeSigma(x, n, S, Q) == (n - 1) * (n * x - S) * (n * x - S) <= 9 * Q

NoMissing(col) == \A i \in 1..Len(col) : col[i] # NaN

CleanColumn(col) ==
    /\ NoMissing(col)
    /\ Len(col) >= 2 =>
           \A S \in {Sum(Values(col))} : \A Q \in {Deviation(Values(col), S)} :
               \A i \in 1..Len(col) : WithinThreeSigma(col[i].v, Len(col), S, Q)

\* C7: a table without missing cells whose values all lie within 3 sample
\* standard deviations of their column's mean is cleaned to itself, cell for
\* cell; a single-row table and a constant column are such tables.
C7_CleanIsIdentity ==
    (IsPlot /\ last.stage = "done" /\ CleanColumn(StoredColumn)) =>
        last.cleaned = Stored

\* A clean column of 11 rows that is not constant was cleaned.
C7_Witness ==
    /\ IsPlot
    /\ last.stage = "done"
    /\ CleanColumn(StoredColumn)
    /\ Len(StoredColumn) = 11
    /\ Cardinality(Set(StoredColumn)) = 2

\* The filled column of the last call, its thresholds and its cleaned column.
FilledColumn == last.filled.data[1]
CleanedColumn == last.cleaned.data[1]
Lower == last.bounds[1][1]
Upper == last.bounds[1][2]

\* The cell is the number S / n.
IsRatio(cell, S, n) == cell.t = "num" /\ n * cell.v = S

\* The thresholds are mean -/+ 3 * std for n >= 2 values of sum S and deviation
\* Q > 0, and each cleaned cell is the filled one when that lies between them
\* and the nearer threshold when it does not.
ClippedAtThreeSigma(n, S, Q) ==
    /\ Lower = Real(S, -3, Q, n - 1, n)
    /\ Upper = Real(S, 3, Q, n - 1, n)
    /\ \A i \in 1..n :
           IF WithinThreeSigma(FilledColumn[i].v, n, S, Q)
           THEN CleanedColumn[i] = FilledColumn[i]
           ELSE IF n * FilledColumn[i].v > S
           THEN CleanedColumn[i] = Upper
           ELSE CleanedColumn[i] = Lower

\* Both thresholds are the mean S / n, and so is every cleaned cell.
CollapsedToMean(n, S) ==
    /\ Lower # NaN /\ Upper # NaN
    /\ as_cell(Lower) = as_cell(Upper)
    /\ IsRatio(as_cell(Lower), S, n)
    /\ \A i \in 1..n : IsRatio(CleanedColumn[i], S, n)

\* C8 as stated: the thresholds are mean -/+ 3 * std over the filled column and
\* every cleaned value lies between them, unchanged when it was inside and the
\* nearer threshold when it was outside; when sigma is undefined (fewer than 2
\* values) or zero the thresholds are both the mean, so every cleaned value is
\* the mean.
C8_ClipBoundsDegenerate ==
    (IsPlot /\ last.stage = "done" /\ NoMissing(FilledColumn)) =>
        \A n \in {Len(FilledColumn)} : \A S \in {Sum(Values(FilledColumn))} :
        \A Q \in {Deviation(Values(FilledColumn), S)} :
            IF n < 2 \/ Q = 0 THEN CollapsedToMean(n, S)
            ELSE ClippedAtThreeSigma(n, S, Q)

\* C8, amended: as above, except that with fewer than 2 values sigma and both
\* thresholds are undefined (NaN) and nothing is clipped; the thresholds are
\* both the mean only when sigma is zero. In both cases every cleaned value is
\* the mean. A column that is entirely missing stays entirely missing.
C8_ClipBounds ==
    (IsPlot /\ last.stage = "done") =>
        IF ~NoMissing(FilledColumn)
        THEN \A i \in 1..Len(CleanedColumn) : CleanedColumn[i] = NaN
        ELSE
        \A n \in {Len(FilledColumn)} : \A S \in {Sum(Values(FilledColumn))} :
        \A Q \in {Deviation(Values(FilledColumn), S)} :
            IF n < 2
            THEN /\ Lower = NaN /\ Upper = NaN
                 /\ \A i \in 1..n : IsRatio(CleanedColumn[i], S, n)
            ELSE IF Q = 0 THEN CollapsedToMean(n, S)
            ELSE ClippedAtThreeSigma(n, S, Q)

\* A value above the upper threshold was clipped to it, in a column that had a
\* missing cell before the fill.
C8_Witness ==
    /\ IsPlot
    /\ last.stage = "done"
    /\ ~NoMissing(StoredColumn)
    /\ Upper # NaN
    /\ \E i \in 1..Len(CleanedColumn) :
           CleanedColumn[i] = Upper /\ FilledColumn[i] # Upper

ValidAbove(col, i) == {j \in 1..(i - 1) : col[j] # NaN}
ValidBelow(col, i) == {j \in (i + 1)..Len(col) : col[j] # NaN}
Greatest(S) == CHOOSE x \in S : \A y \in S : y <= x
Least(S) == CHOOSE x \in S : \A y \in S : x <= y

\* C9: after the fill of line 89 and before the clipping, a missing cell with a
\* valid cell above it holds the value of the nearest valid cell above, a
\* missing cell with none above holds the value of the nearest valid cell
\* below, and a valid cell is unchanged; so a column with a valid cell has no
\* missing cell left, and a column without one stays entirely missing.
C9_FillForwardThenBackward ==
    (IsPlot /\ last.stage = "done") =>
        /\ Len(FilledColumn) = Len(StoredColumn)
        /\ \A i \in 1..Len(StoredColumn) :
               IF StoredColumn[i] # NaN THEN FilledColumn[i] = StoredColumn[i]
               ELSE IF ValidAbove(StoredColumn, i) # {}
               THEN FilledColumn[i] = StoredColumn[Greatest(ValidAbove(StoredColumn, i))]
               ELSE IF ValidBelow(StoredColumn, i) # {}
               THEN FilledColumn[i] = StoredColumn[Least(ValidBelow(StoredColumn, i))]
               ELSE FilledColumn[i] = NaN
        /\ (\E i \in 1..Len(StoredColumn) : StoredColumn[i] # NaN) => NoMissing(FilledColumn)

\* A column with a leading gap and a gap between two different values was
\* filled.
C9_Witness ==
    /\ IsPlot
    /\ last.stage = "done"
    /\ StoredColumn = <<NaN, Num(1), NaN, Num(2)>>
    /\ FilledColumn = <<Num(1), Num(1), Num(1), Num(2)>>

\* C10: a call of plot_data that reports an error leaves no more figures open
\* than there were before it, and the figure it created, if it created one,
\* is closed when it returns.
C10_NoFigureLeak ==
    [][(last'.op = "plot_data" /\ last'.stage # "done") =>
           /\ Len(figs') <= Len(figs)
           /\ last'.created # 0 => last'.created \notin Set(figs')]_vars

\* A call failed after it had created a figure and drawn a line, while the
\* figure of an earlier call was still open.
C10_Witness ==
    /\ IsPlot
    /\ last.stage = "render"
    /\ last.created = 2
    /\ last.lines # <<>>
    /\ figs = <<1>>

====
